---- MODULE Spec2Model ----
(***************************************************************************)
(* banalysis: reading a bank statement in the midata CSV layout            *)
(* (inputs.read_midata), binding it to the dashboard's data source and     *)
(* axis ranges (dashboard.Dashboard._update_source) and the teardown of    *)
(* the logging context manager (utils.Logger.__exit__).                    *)
(*                                                                         *)
(* Text is a sequence of one-character strings, so that strip, lower,      *)
(* startswith, replace, join, rsplit and the numeric and date parsers are  *)
(* computed character by character.  "GBP" stands for the one character    *)
(* U+00A3, the pound sign.  Money is an integer number of hundredths.      *)
(***************************************************************************)
EXTENDS Integers, Sequences, FiniteSets, TLC

(***************************************************************************)
(* Bounds of the model.                                                    *)
(***************************************************************************)
\* longest statement body (rows below the header) of an enumerated CSV
MaxRows == 2
\* most records logged inside a managed Logger block
MaxLog == 3

(***************************************************************************)
(* Python str operations.                                                  *)
(***************************************************************************)
Upper == <<"A","B","C","D","E","F","G","H","I","J","K","L","M","N","O","P","Q","R","S","T","U","V","W","X","Y","Z">>
Lower == <<"a","b","c","d","e","f","g","h","i","j","k","l","m","n","o","p","q","r","s","t","u","v","w","x","y","z">>
Digits == <<"0","1","2","3","4","5","6","7","8","9">>
Whitespace == {" ", "\t"}

\* str.lower() on one character
LowerChar(c) ==
    IF \E i \in 1..Len(Upper) : Upper[i] = c
    THEN Lower[CHOOSE i \in 1..Len(Upper) : Upper[i] = c]
    ELSE c

\* str.lower()
StrLower(s) == [i \in 1..Len(s) |-> LowerChar(s[i])]

\* str.strip(): leading and trailing whitespace removed
StrStrip(s) ==
    LET keep == {i \in 1..Len(s) : s[i] \notin Whitespace}
    IN  IF keep = {} THEN << >>
        ELSE LET lo == CHOOSE i \in keep : \A j \in keep : i <= j
                 hi == CHOOSE i \in keep : \A j \in keep : j <= i
             IN  SubSeq(s, lo, hi)

\* str.startswith(prefix)
StartsWith(s, prefix) ==
    /\ Len(s) >= Len(prefix)
    /\ SubSeq(s, 1, Len(prefix)) = prefix

\* str.replace(ch, "") for a one-character ch
RECURSIVE RemoveChar(_, _)
RemoveChar(s, ch) ==
    IF s = << >> THEN << >>
    ELSE IF Head(s) = ch THEN RemoveChar(Tail(s), ch)
    ELSE <<Head(s)>> \o RemoveChar(Tail(s), ch)

\* sep.join(parts)
RECURSIVE StrJoin(_, _)
StrJoin(sep, parts) ==
    IF parts = << >> THEN << >>
    ELSE IF Len(parts) = 1 THEN parts[1]
    ELSE parts[1] \o sep \o StrJoin(sep, Tail(parts))

\* s.rsplit(ch, 1) for a one-character ch: split at the last ch, if any
RSplit1(s, ch) ==
    LET at == {i \in 1..Len(s) : s[i] = ch}
    IN  IF at = {} THEN <<s>>
        ELSE LET k == CHOOSE i \in at : \A j \in at : j <= i
             IN  <<SubSeq(s, 1, k - 1), SubSeq(s, k + 1, Len(s))>>

IsDigit(c) == \E i \in 1..Len(Digits) : Digits[i] = c
DigitVal(c) == (CHOOSE i \in 1..Len(Digits) : Digits[i] = c) - 1
AllDigits(s) == \A i \in 1..Len(s) : IsDigit(s[i])

\* value of a run of decimal digits
RECURSIVE DigitsVal(_)
DigitsVal(s) ==
    IF s = << >> THEN 0
    ELSE 10 * DigitsVal(SubSeq(s, 1, Len(s) - 1)) + DigitVal(s[Len(s)])

(***************************************************************************)
(* Numbers and dates as pandas reads them.                                 *)
(***************************************************************************)
NumBody(s) == IF s # << >> /\ s[1] \in {"+", "-"} THEN Tail(s) ELSE s
NumPoints(s) == {i \in 1..Len(NumBody(s)) : NumBody(s)[i] = "."}
NumInt(s) ==
    IF NumPoints(s) = {} THEN NumBody(s)
    ELSE SubSeq(NumBody(s), 1, (CHOOSE i \in NumPoints(s) : TRUE) - 1)
NumFrac(s) ==
    IF NumPoints(s) = {} THEN << >>
    ELSE SubSeq(NumBody(s), (CHOOSE i \in NumPoints(s) : TRUE) + 1, Len(NumBody(s)))

\* the text is a decimal literal: optional sign, digits, optional point and
\* digits (money is held in hundredths: the enumerated texts carry at most
\* two fractional digits)
IsNumber(s) ==
    /\ Cardinality(NumPoints(s)) <= 1
    /\ AllDigits(NumInt(s))
    /\ AllDigits(NumFrac(s))
    /\ Len(NumInt(s)) + Len(NumFrac(s)) >= 1
    /\ Len(NumFrac(s)) <= 2

\* value of a decimal literal, in hundredths
NumberVal(s) ==
    LET f == NumFrac(s)
        hundredths == IF Len(f) = 0 THEN 0
                      ELSE IF Len(f) = 1 THEN 10 * DigitVal(f[1])
                      ELSE 10 * DigitVal(f[1]) + DigitVal(f[2])
        mag == 100 * DigitsVal(NumInt(s)) + hundredths
    IN  IF s[1] = "-" THEN 0 - mag ELSE mag

\* the parts of s between occurrences of the one-character separator ch
RECURSIVE StrSplit(_, _)
StrSplit(s, ch) ==
    LET at == {i \in 1..Len(s) : s[i] = ch}
    IN  IF at = {} THEN <<s>>
        ELSE LET k == CHOOSE i \in at : \A j \in at : i <= j
             IN  <<SubSeq(s, 1, k - 1)>> \o StrSplit(SubSeq(s, k + 1, Len(s)), ch)

IsLeap(y) == (y % 4 = 0 /\ y % 100 # 0) \/ y % 400 = 0
DaysIn(m, y) ==
    IF m = 2 THEN (IF IsLeap(y) THEN 29 ELSE 28)
    ELSE IF m \in {4, 6, 9, 11} THEN 30 ELSE 31

\* the text matches format "%d/%m/%Y": day and month of one or two digits,
\* a year of four, and the three name a day of the calendar
IsDate(s) ==
    LET p == StrSplit(s, "/")
    IN  /\ Len(p) = 3
        /\ Len(p[1]) \in {1, 2} /\ AllDigits(p[1])
        /\ Len(p[2]) \in {1, 2} /\ AllDigits(p[2])
        /\ Len(p[3]) = 4 /\ AllDigits(p[3])
        /\ DigitsVal(p[2]) \in 1..12
        /\ DigitsVal(p[1]) \in 1..DaysIn(DigitsVal(p[2]), DigitsVal(p[3]))

(***************************************************************************)
(* Cells of a DataFrame.                                                   *)
(***************************************************************************)
NaN == [k |-> "nan"]
NaT == [k |-> "nat"]
StrCell(s) == [k |-> "str", s |-> s]
NumCell(v) == [k |-> "num", v |-> v]
DateCell(y, m, d) == [k |-> "date", y |-> y, m |-> m, d |-> d]

\* datetime.date of a text that IsDate accepts
DateVal(s) ==
    LET p == StrSplit(s, "/")
    IN  DateCell(DigitsVal(p[3]), DigitsVal(p[2]), DigitsVal(p[1]))

\* Python's None: no value, no table
None == [k |-> "None"]

(***************************************************************************)
(* pd.read_csv: the header row names the columns; an empty field is NaN;   *)
(* a column whose fields are all empty or decimal literals is numeric      *)
(* (float64), any other column keeps its texts (object).  The column       *)
(* names of an enumerated CSV are pairwise different as written, so        *)
(* read_csv renames none.                                                  *)
(***************************************************************************)
NRows(df) == IF df.data = << >> THEN 0 ELSE Len(df.data[1])

ColumnDtype(csv, j) ==
    IF /\ Len(csv.rows) > 0
       /\ \A i \in 1..Len(csv.rows) :
             csv.rows[i][j] = << >> \/ IsNumber(csv.rows[i][j])
    THEN "float64" ELSE "object"

ReadCell(text, dtype) ==
    IF text = << >> THEN NaN
    ELSE IF dtype = "float64" THEN NumCell(NumberVal(text))
    ELSE StrCell(text)

read_csv(csv) ==
    [columns |-> csv.header,
     dtypes  |-> [j \in 1..Len(csv.header) |-> ColumnDtype(csv, j)],
     data    |-> [j \in 1..Len(csv.header) |->
                    [i \in 1..Len(csv.rows) |->
                        ReadCell(csv.rows[i][j], ColumnDtype(csv, j))]]]

(***************************************************************************)
(* inputs._check_midata_columns                                            *)
(***************************************************************************)
DATE == <<"d","a","t","e">>
TYPE == <<"t","y","p","e">>
MERCHANT == <<"m","e","r","c","h","a","n","t","/","d","e","s","c","r","i","p","t","i","o","n">>
DEBIT == <<"d","e","b","i","t","/","c","r","e","d","i","t">>
BALANCE == <<"b","a","l","a","n","c","e">>
DESCRIPTION == <<"d","e","s","c","r","i","p","t","i","o","n">>
AMOUNT == <<"a","m","o","u","n","t">>

\* columns = ["date", "type", "merchant/description", "debit/credit", "balance"]
columns == <<DATE, TYPE, MERCHANT, DEBIT, BALANCE>>

\* rename = {"merchant/description": "description", "debit/credit": "amount"}
Rename(c) == IF c = MERCHANT THEN DESCRIPTION ELSE IF c = DEBIT THEN AMOUNT ELSE c

\* [c.strip().lower() for c in df.columns.tolist()]
NormaliseColumns(cols) == [j \in 1..Len(cols) |-> StrLower(StrStrip(cols[j]))]

\* the positions of the columns labelled c, left to right
RECURSIVE Positions(_, _, _)
Positions(cols, c, from) ==
    IF from > Len(cols) THEN << >>
    ELSE (IF cols[from] = c THEN <<from>> ELSE << >>) \o Positions(cols, c, from + 1)

\* missing = [c for c in columns if c not in df.columns.tolist()]
RECURSIVE Missing(_, _)
Missing(cols, wanted) ==
    IF wanted = << >> THEN << >>
    ELSE (IF Positions(cols, Head(wanted), 1) = << >> THEN <<Head(wanted)>> ELSE << >>)
         \o Missing(cols, Tail(wanted))

Quote(s) == <<"'">> \o s \o <<"'">>

\* msg = ", ".join(f"'{s}'" for s in missing); msg = " and".join(msg.rsplit(",", 1))
MissingMsgOxford(missing) ==
    StrJoin(<<","," ","a","n","d">>, RSplit1(StrJoin(<<","," ">>, [i \in 1..Len(missing) |-> Quote(missing[i])]), ","))
MissingMsg(missing) ==
    StrJoin(<<" ","a","n","d">>, RSplit1(StrJoin(<<","," ">>, [i \in 1..Len(missing) |-> Quote(missing[i])]), ","))

MsgPrefix == <<"t","h","e"," ","f","o","l","l","o","w","i","n","g"," ","c","o","l","u","m","n","s"," ","a","r","e"," ","m","i","s","s","i","n","g"," ","f","r","o","m"," ","m","i","d","a","t","a"," ","C","S","V",":"," ">>

\* df.loc[:, columns]: every column carrying a wanted label, in the order of
\* the wanted labels (a label carried by two columns selects both)
RECURSIVE LocColumns(_, _)
LocColumns(cols, wanted) ==
    IF wanted = << >> THEN << >>
    ELSE Positions(cols, Head(wanted), 1) \o LocColumns(cols, Tail(wanted))

Raise(exc, line, msg) == [exc |-> exc, line |-> line, msg |-> msg, df |-> None]
Return(df) == [exc |-> "none", line |-> 0, msg |-> << >>, df |-> df]

_check_midata_columns(df) ==
    LET cols == NormaliseColumns(df.columns)
        missing == Missing(cols, columns)
        sel == LocColumns(cols, columns)
    IN  IF missing # << >>
        THEN Raise("MidataCSVError", 90, MsgPrefix \o MissingMsg(missing))
        ELSE Return([columns |-> [j \in 1..Len(sel) |-> Rename(cols[sel[j]])],
                     dtypes  |-> [j \in 1..Len(sel) |-> df.dtypes[sel[j]]],
                     data    |-> [j \in 1..Len(sel) |-> df.data[sel[j]]]])

(***************************************************************************)
(* inputs.read_midata                                                      *)
(***************************************************************************)
ARRANGED == <<"a","r","r","a","n","g","e","d">>

\* df.drop(df.index[-1], inplace=True)
DropLast(df) ==
    [df EXCEPT !.data = [j \in 1..Len(df.data) |->
                            SubSeq(df.data[j], 1, Len(df.data[j]) - 1)]]

\* df.iat[-1, 0].lower().startswith("arranged"), the cell being a str
LastRowIsOverdraft(df) ==
    StartsWith(StrLower(df.data[1][NRows(df)].s), ARRANGED)

\* df[c].str.replace(GBP, "") on one cell: NaN stays NaN
StripCurrency(cell) ==
    IF cell.k = "str" THEN StrCell(RemoveChar(cell.s, "GBP")) ELSE cell

\* pd.to_numeric(..., errors="raise") accepts the cell
NumericOk(cell) == cell.k = "str" => IsNumber(cell.s)
to_numeric(cell) == IF cell.k = "str" THEN NumCell(NumberVal(cell.s)) ELSE cell

\* pd.to_datetime(..., format="%d/%m/%Y", errors="raise").dt.date on one cell:
\* a missing value becomes NaT
DateOk(cell) == cell.k = "str" => IsDate(cell.s)
to_datetime(cell) == IF cell.k = "str" THEN DateVal(cell.s) ELSE NaT

\* df[c] = pd.to_numeric(df[c].str.replace(GBP, ""), errors="raise")
CoerceNumeric(df, c) ==
    LET at == Positions(df.columns, c, 1)
        j == at[1]
        stripped == [i \in 1..NRows(df) |-> StripCurrency(df.data[j][i])]
    IN  IF Len(at) > 1
        THEN Raise("AttributeError", 53, << >>)     \* df[c] is a DataFrame: no .str
        ELSE IF df.dtypes[j] # "object"
        THEN Raise("AttributeError", 53, << >>)     \* .str needs string values
        ELSE IF \E i \in 1..NRows(df) : ~NumericOk(stripped[i])
        THEN Raise("ValueError", 53, << >>)
        ELSE Return([df EXCEPT !.dtypes[j] = "float64",
                               !.data[j] = [i \in 1..NRows(df) |-> to_numeric(stripped[i])]])

\* df["date"] = pd.to_datetime(df["date"], format="%d/%m/%Y", errors="raise").dt.date
CoerceDate(df) ==
    LET at == Positions(df.columns, DATE, 1)
        j == at[1]
    IN  IF Len(at) > 1
        THEN Raise("ValueError", 54, << >>)         \* a DataFrame with duplicate keys
        ELSE IF \E i \in 1..NRows(df) : ~DateOk(df.data[j][i])
        THEN Raise("ValueError", 54, << >>)
        ELSE Return([df EXCEPT !.data[j] = [i \in 1..NRows(df) |-> to_datetime(df.data[j][i])]])

\* lines 52-55: amount, then balance, then date, the first failure ending the call
AfterBalance(balance) ==
    IF balance.exc # "none" THEN balance ELSE CoerceDate(balance.df)
AfterAmount(amount) ==
    IF amount.exc # "none" THEN amount
    ELSE AfterBalance(CoerceNumeric(amount.df, BALANCE))

\* lines 48-50: the last row goes when the text of its first cell starts with
\* "arranged", whatever its case
AfterCheck(checked) ==
    IF checked.exc # "none" THEN checked
    ELSE IF NRows(checked.df) = 0
    THEN Raise("IndexError", 49, << >>)             \* iat[-1, 0] of an empty frame
    ELSE IF checked.df.data[1][NRows(checked.df)].k # "str"
    THEN Raise("AttributeError", 49, << >>)         \* a float has no .lower()
    ELSE AfterAmount(CoerceNumeric(IF LastRowIsOverdraft(checked.df)
                                   THEN DropLast(checked.df) ELSE checked.df,
                                   AMOUNT))

read_midata(csv) == AfterCheck(_check_midata_columns(read_csv(csv)))

(***************************************************************************)
(* Uploaded files.  An upload is described by its header columns and its   *)
(* records; Csv is the file itself, which is all the program reads.        *)
(***************************************************************************)
Fields == <<"date", "type", "description", "amount", "balance">>

PlainNames == columns
ShoutNames == <<<<" ","D","a","t","e">>, <<"T","Y","P","E"," ">>, <<"M","e","r","c","h","a","n","t","/","D","e","s","c","r","i","p","t","i","o","n">>,
                <<"\t">> \o <<"D","e","b","i","t","/","C","r","e","d","i","t"," ">>, <<"B","A","L","A","N","C","E">>>>

\* a header column: its name as written, the record field it carries and
\* the required column its name is a variant of ("extra": of none)
Col(text, field, canon) == [text |-> text, field |-> field, canon |-> canon]

NotesCol == Col(<<"N","o","t","e","s">>, "notes", "extra")
DupTypeCol == Col(<<"t","Y","p","e">>, "type", "type")
DupDateCol == Col(<<"d","A","t","e"," ">>, "date", "date")
DupAmountCol == Col(<<" ","D","e","b","i","t","/","c","r","e","d","i","t">>, "amount", "amount")

Styles == {"plain", "shout"}
Extras == {"none", "notes", "dupType", "dupDate", "dupAmount"}

RECURSIVE Reverse(_)
Reverse(s) == IF s = << >> THEN << >> ELSE Reverse(Tail(s)) \o <<Head(s)>>

RECURSIVE BaseHeader(_, _, _)
BaseHeader(present, style, i) ==
    IF i > Len(Fields) THEN << >>
    ELSE (IF i \in present
          THEN <<Col(IF style = "plain" THEN PlainNames[i] ELSE ShoutNames[i],
                     Fields[i], Fields[i])>>
          ELSE << >>) \o BaseHeader(present, style, i + 1)

HeaderOf(present, style, reversed, extra) ==
    LET base == IF reversed THEN Reverse(BaseHeader(present, style, 1))
                ELSE BaseHeader(present, style, 1)
    IN  CASE extra = "none"      -> base
          [] extra = "notes"     -> <<NotesCol>> \o base
          [] extra = "dupType"   -> base \o <<DupTypeCol>>
          [] extra = "dupDate"   -> <<DupDateCol>> \o base
          [] extra = "dupAmount" -> base \o <<DupAmountCol>>

Rec(date, type, description, amount, balance) ==
    [date |-> date, type |-> type, description |-> description,
     amount |-> amount, balance |-> balance, notes |-> <<"x">>]

\* an ordinary payment
RPay == Rec(<<"0","1","/","0","1","/","2","0","2","3">>, <<"P","a","y","m","e","n","t">>, <<"S","h","o","p">>, <<"-","GBP","2","0",".","0","0">>, <<"GBP","9","8","0",".","0","0">>)
\* a second transaction, the last day of the year
RPaid == Rec(<<"3","1","/","1","2","/","2","0","2","3">>, <<"C","r","e","d","i","t">>, <<"W","o","r","k">>, <<"GBP","1","2","3",".","4","5">>, <<"GBP","1","1","0","3",".","4","5">>)
\* a summary row labelled in its type field
RTypeOverdraft == Rec(<<"0","2","/","0","1","/","2","0","2","3">>, <<"A","r","r","a","n","g","e","d"," ","O","v","e","r","d","r","a","f","t"," ","L","i","m","i","t">>, << >>, << >>, <<"GBP","0",".","0","0">>)
\* a summary row labelled in its first field
RDateOverdraft == Rec(<<"A","R","R","A","N","G","E","D"," ","o","v","e","r","d","r","a","f","t"," ","l","i","m","i","t">>, <<"P","a","y","m","e","n","t">>, << >>, << >>, <<"GBP","0",".","0","0">>)
\* a transaction whose money carries no currency symbol
RPlain == Rec(<<"2","9","/","0","2","/","2","0","2","4">>, <<"I","n","t","e","r","e","s","t">>, <<"B","a","n","k">>, <<"1","2",".","5","0">>, <<"1","0","0",".","0","0">>)
\* a date written year first
RIso == Rec(<<"2","0","2","3","-","1","2","-","3","1">>, <<"P","a","y","m","e","n","t">>, <<"S","h","o","p">>, <<"-","GBP","5","0",".","0","0">>, <<"GBP","0",".","0","0">>)
\* an amount that is no number
RBadAmount == Rec(<<"0","3","/","0","1","/","2","0","2","3">>, <<"R","e","f","u","n","d">>, <<"S","h","o","p">>, <<"a","b","c">>, <<"GBP","1",".","0","0">>)
\* a transaction with no date
RNoDate == Rec(<< >>, <<"P","a","y","m","e","n","t">>, <<"S","h","o","p">>, <<"GBP","1",".","0","0">>, <<"GBP","2",".","0","0">>)

RecPool == {RPay, RPaid, RTypeOverdraft, RDateOverdraft, RPlain, RIso, RBadAmount, RNoDate}

FullHeader == HeaderOf(1..5, "plain", FALSE, "none")

HeaderUploads ==
    {[cols |-> HeaderOf(p, s, r, e), recs |-> <<RPay, RPaid>>] :
        p \in SUBSET (1..5), s \in Styles, r \in BOOLEAN, e \in Extras}

RowUploads ==
    {[cols |-> FullHeader, recs |-> rs] :
        rs \in UNION {[1..n -> RecPool] : n \in 0..MaxRows}}

\* a file has a header row of at least one column
ParseUploads == {u \in HeaderUploads \cup RowUploads : u.cols # << >>}

\* the CSV text of an upload: the header row and one row of fields per record
Csv(u) ==
    [header |-> [j \in 1..Len(u.cols) |-> u.cols[j].text],
     rows   |-> [i \in 1..Len(u.recs) |->
                    [j \in 1..Len(u.cols) |-> u.recs[i][u.cols[j].field]]]]

(***************************************************************************)
(* State.                                                                  *)
(***************************************************************************)
VARIABLES
    upload,     \* the file handed to read_midata (FileInput.value), None before any
    ret,        \* how the last call of read_midata ended, None before any
    source,     \* Dashboard.source.data
    x_range,    \* Dashboard.all_plot.x_range.bounds
    y_range,    \* Dashboard.all_plot.y_range.bounds
    raised,     \* the exception the last _update_source let out, "none" if none
    records,    \* the records the logging module has handled, oldest first
    phase,      \* of the Logger's with statement: "block", "exited"
    exited      \* how Logger.__exit__ ended, None while in the block

vars == <<upload, ret, source, x_range, y_range, raised, records, phase, exited>>

(***************************************************************************)
(* dashboard.Dashboard                                                     *)
(***************************************************************************)
ABS_AMOUNT == <<"a","b","s","_","a","m","o","u","n","t">>

\* inputs.EMPTY_MIDATA, the table bound before any upload: inputs.py defines
\* no such name, and it is taken to be the table of the five columns with no
\* row
EMPTY_MIDATA ==
    [columns |-> <<DATE, TYPE, DESCRIPTION, AMOUNT, BALANCE>>,
     dtypes  |-> <<"object", "object", "object", "float64", "float64">>,
     data    |-> << << >>, << >>, << >>, << >>, << >> >>]

\* dt.datetime.today() - epoch, in seconds: the moment the dashboard is built
TodaySeconds == {1793491200, 1793577600}
TwoYears == 2 * 365 * 24 * 60 * 60

\* a bound in milliseconds since the epoch, held as its thousands
MsCell(seconds) == [k |-> "ms", thousands |-> seconds]

Bounds(lo, hi) == [lo |-> lo, hi |-> hi]

\* plot_all: p.x_range and p.y_range as first set
InitXRange(today) == Bounds(MsCell(today - TwoYears), MsCell(today))
InitYRange == Bounds(0, 10000)

\* a < b between the values of a date column: NaT is neither less nor greater
DateLess(a, b) ==
    /\ a.k = "date" /\ b.k = "date"
    /\ \/ a.y < b.y
       \/ a.y = b.y /\ a.m < b.m
       \/ a.y = b.y /\ a.m = b.m /\ a.d < b.d

\* Python's min() and max() over a non-empty column
RECURSIVE PyMin(_)
PyMin(s) ==
    IF Len(s) = 1 THEN s[1]
    ELSE LET m == PyMin(SubSeq(s, 1, Len(s) - 1))
         IN  IF DateLess(s[Len(s)], m) THEN s[Len(s)] ELSE m
RECURSIVE PyMax(_)
PyMax(s) ==
    IF Len(s) = 1 THEN s[1]
    ELSE LET m == PyMax(SubSeq(s, 1, Len(s) - 1))
         IN  IF DateLess(m, s[Len(s)]) THEN s[Len(s)] ELSE m

\* the values of df[[a, b]], all cells of both columns
FrameValues(df, a, b) ==
    {df.data[j][i] : j \in {Positions(df.columns, a, 1)[1], Positions(df.columns, b, 1)[1]},
                     i \in 1..NRows(df)}

\* math.ceil(np.max(values) / 1000) * 1000, values in hundredths, result in units
CeilThousands(values) ==
    LET top == CHOOSE v \in values : \A w \in values : w.v <= v.v
    IN  ((top.v + 99999) \div 100000) * 1000

Dash(s, x, y, r, e) == [source |-> s, x_range |-> x, y_range |-> y, ret |-> r, raised |-> e]

DateColumn(df) == df.data[Positions(df.columns, DATE, 1)[1]]

\* lines 121-124: the value range, from the balance and abs_amount columns
Ranged(d, r, x) ==
    IF \/ Positions(r.df.columns, BALANCE, 1) = << >>
       \/ Positions(r.df.columns, ABS_AMOUNT, 1) = << >>
    THEN Dash(r.df, x, d.y_range, r, "KeyError")                        \* no such column
    ELSE IF \E c \in FrameValues(r.df, BALANCE, ABS_AMOUNT) : c.k # "num"
    THEN Dash(r.df, x, d.y_range, r, "ValueError")                      \* ceil of NaN
    ELSE Dash(r.df, x, Bounds(0, CeilThousands(FrameValues(r.df, BALANCE, ABS_AMOUNT))),
              r, "none")

\* lines 118-120: the table is bound, then the date range set
Bound(d, r) ==
    IF NRows(r.df) = 0
    THEN Dash(r.df, d.x_range, d.y_range, r, "ValueError")              \* min() of nothing
    ELSE Ranged(d, r, Bounds(PyMin(DateColumn(r.df)), PyMax(DateColumn(r.df))))

\* line 117 onwards, r being how read_midata ended
Parsed(d, r) ==
    IF r.exc # "none" THEN Dash(d.source, d.x_range, d.y_range, r, r.exc)
    ELSE Bound(d, r)
ParsedUnbinds(d, r) ==
    IF r.exc # "none" THEN Dash(EMPTY_MIDATA, d.x_range, d.y_range, r, r.exc)
    ELSE Bound(d, r)

\* Dashboard._update_source(attr, old, new), new being the upload u: the
\* dashboard it leaves behind and the exception it lets out
_update_source_unbinds(d, u) == ParsedUnbinds(d, read_midata(Csv(u)))
_update_source(d, u) == Parsed(d, read_midata(Csv(u)))

\* the files offered to the dashboard
\* a summary row that states money
ROverdraftMoney == Rec(<<"A","r","r","a","n","g","e","d"," ","o","v","e","r","d","r","a","f","t"," ","l","i","m","i","t">>, <<"L","i","m","i","t">>, << >>, <<"+","GBP","5","0","0",".","0","0">>, <<"GBP","0",".","0","0">>)
DashPool == {RPay, RPaid, RPlain, RDateOverdraft}
DashUploads ==
    {[cols |-> FullHeader, recs |-> rs] :
        rs \in [1..1 -> DashPool] \cup [1..2 -> DashPool]
                \cup {<<RPay, RTypeOverdraft>>, <<RPay, RIso>>, <<RBadAmount, RPaid>>,
                      <<ROverdraftMoney>>, << >>}}
    \cup {[cols |-> HeaderOf({1, 2, 5}, "shout", FALSE, "notes"), recs |-> <<RPay>>],
          [cols |-> HeaderOf(1..5, "shout", TRUE, "notes"), recs |-> <<RPaid, RPay>>]}

(***************************************************************************)
(* utils.Logger                                                            *)
(***************************************************************************)
Record(level, msg) == [level |-> level, msg |-> msg]

\* what a managed block can log
BlockLevels == {"DEBUG", "INFO", "WARNING"}

\* the ways a managed block ends: normally, or with an exception of a class
\* and args
NoException == [class |-> "None", args |-> << >>]
Exc(class, args) == [class |-> class, args |-> args]
Endings ==
    {NoException,
     Exc("SystemExit", <<NumCell(0)>>), Exc("SystemExit", <<NumCell(1)>>),
     Exc("SystemExit", <<StrCell(<<"b","y","e">>)>>), Exc("SystemExit", << >>),
     Exc("ValueError", <<StrCell(<<"b","a","d">>)>>), Exc("KeyboardInterrupt", << >>)}

\* Logger.__exit__(excepType, excepVal, traceback): the records it adds, whether
\* logging.shutdown() ran, what it returned and the exception of its own
Exit(logged, shutdown, returned, exc) ==
    [logged |-> logged, shutdown |-> shutdown, returned |-> returned, exc |-> exc]

__exit__(e) ==
    IF e.class = "SystemExit" /\ e.args = << >>
    THEN Exit(<< >>, FALSE, None, "IndexError")                         \* args[0] of ()
    ELSE IF e.class = "SystemExit" /\ e.args[1].k = "num" /\ e.args[1].v = 0
    THEN Exit(<<Record("INFO", "Program exited sucessfully")>>, TRUE, None, "none")
    ELSE IF e.class # "None"
    THEN Exit(<<Record("CRITICAL", "A critical error occurred")>>, TRUE, None, "none")
    ELSE Exit(<<Record("INFO", "Program completed without any critical errors")>>,
              TRUE, None, "none")

(***************************************************************************)
(* The dashboard: built once, then one _update_source per uploaded file.   *)
(***************************************************************************)
NoLogger == records = << >> /\ phase = "off" /\ exited = None

Init ==
    /\ upload = None
    /\ ret = None
    /\ source = EMPTY_MIDATA
    /\ \E today \in TodaySeconds : x_range = InitXRange(today)
    /\ y_range = InitYRange
    /\ raised = "none"
    /\ NoLogger

\* the dashboard becomes d
Becomes(d) ==
    /\ ret' = d.ret
    /\ source' = d.source
    /\ x_range' = d.x_range
    /\ y_range' = d.y_range
    /\ raised' = d.raised

\* the FileInput's value changes to u and the callback runs
UpdateSource(u) ==
    /\ upload' = u
    /\ Becomes(_update_source(Dash(source, x_range, y_range, ret, raised), u))
    /\ UNCHANGED <<records, phase, exited>>

Next == \E u \in DashUploads : UpdateSource(u)

Spec == Init /\ [][Next]_vars

(***************************************************************************)
(* read_midata applied to each enumerated file.                            *)
(***************************************************************************)
InitParse ==
    /\ upload \in ParseUploads
    /\ ret = None
    /\ source = None /\ x_range = None /\ y_range = None
    /\ raised = "none"
    /\ NoLogger

ReadMidata ==
    /\ ret = None
    /\ ret' = read_midata(Csv(upload))
    /\ raised' = ret'.exc
    /\ UNCHANGED <<upload, source, x_range, y_range, records, phase, exited>>

NextParse == ReadMidata

SpecParse == InitParse /\ [][NextParse]_vars

(***************************************************************************)
(* A Logger around a managed block: built, the block logs, the block ends. *)
(***************************************************************************)
InitLogger ==
    /\ records = <<Record("DEBUG", "Initialised logger")>>
    /\ phase = "block"
    /\ exited = None
    /\ upload = None /\ ret = None
    /\ source = None /\ x_range = None /\ y_range = None
    /\ raised = "none"

BlockLogs(level) ==
    /\ phase = "block"
    /\ Len(records) <= MaxLog
    /\ records' = Append(records, Record(level, "message"))
    /\ UNCHANGED <<upload, ret, source, x_range, y_range, raised, phase, exited>>

BlockEnds(e) ==
    /\ phase = "block"
    /\ exited' = [ending |-> e, exit |-> __exit__(e)]
    /\ records' = records \o exited'.exit.logged
    /\ phase' = "exited"
    /\ UNCHANGED <<upload, ret, source, x_range, y_range, raised>>

NextLogger ==
    \/ \E level \in BlockLevels : BlockLogs(level)
    \/ \E e \in Endings : BlockEnds(e)

SpecLogger == InitLogger /\ [][NextLogger]_vars

(***************************************************************************)
(* What the files are, told apart from what the program makes of them:     *)
(* the required columns a header holds by the labels of its columns, the   *)
(* money and the dates of the records by table.                            *)
(***************************************************************************)
CanonicalColumns == <<DATE, TYPE, DESCRIPTION, AMOUNT, BALANCE>>

HeaderCanon(u) == {u.cols[j].canon : j \in 1..Len(u.cols)}
HasAllRequired(u) == \A i \in 1..Len(Fields) : Fields[i] \in HeaderCanon(u)

\* the required names no column of the header is a variant of
RECURSIVE ExpectedMissing(_, _)
ExpectedMissing(u, i) ==
    IF i > Len(Fields) THEN << >>
    ELSE (IF Fields[i] \in HeaderCanon(u) THEN << >> ELSE <<columns[i]>>)
         \o ExpectedMissing(u, i + 1)

\* 'a' / 'a' and 'b' / 'a', 'b' and 'c' ...
RECURSIVE QuotedCommas(_)
QuotedCommas(names) ==
    IF Len(names) = 1 THEN <<"'">> \o names[1] \o <<"'">>
    ELSE <<"'">> \o names[1] \o <<"'", ",", " ">> \o QuotedCommas(Tail(names))
ExpectedList(names) ==
    IF Len(names) = 1 THEN QuotedCommas(names)
    ELSE QuotedCommas(SubSeq(names, 1, Len(names) - 1))
         \o <<" ","a","n","d"," ","'">> \o names[Len(names)] \o <<"'">>

\* the money texts that are decimal numbers, with or without the pound
\* sign, and their values in hundredths
MoneyTable ==
    << <<<<"-","GBP","2","0",".","0","0">>, -2000>>, <<<<"GBP","9","8","0",".","0","0">>, 98000>>, <<<<"GBP","1","2","3",".","4","5">>, 12345>>,
       <<<<"GBP","1","1","0","3",".","4","5">>, 110345>>, <<<<"1","2",".","5","0">>, 1250>>, <<<<"1","0","0",".","0","0">>, 10000>>,
       <<<<"-","GBP","5","0",".","0","0">>, -5000>>, <<<<"GBP","0",".","0","0">>, 0>>, <<<<"GBP","1",".","0","0">>, 100>>, <<<<"GBP","2",".","0","0">>, 200>> >>
IsMoney(t) == \E i \in 1..Len(MoneyTable) : MoneyTable[i][1] = t
MoneyOf(t) == MoneyTable[CHOOSE i \in 1..Len(MoneyTable) : MoneyTable[i][1] = t][2]
HasPound(t) == \E i \in 1..Len(t) : t[i] = "GBP"

\* the date texts that are calendar dates written DD/MM/YYYY
DateTable ==
    << <<<<"0","1","/","0","1","/","2","0","2","3">>, DateCell(2023, 1, 1)>>, <<<<"3","1","/","1","2","/","2","0","2","3">>, DateCell(2023, 12, 31)>>,
       <<<<"0","2","/","0","1","/","2","0","2","3">>, DateCell(2023, 1, 2)>>, <<<<"2","9","/","0","2","/","2","0","2","4">>, DateCell(2024, 2, 29)>>,
       <<<<"0","3","/","0","1","/","2","0","2","3">>, DateCell(2023, 1, 3)>> >>
IsDayMonthYear(t) == \E i \in 1..Len(DateTable) : DateTable[i][1] = t
DayMonthYearOf(t) == DateTable[CHOOSE i \in 1..Len(DateTable) : DateTable[i][1] = t][2]

TypeArranged(r) == StartsWith(StrLower(r.type), ARRANGED)
DateArranged(r) == StartsWith(StrLower(r.date), ARRANGED)

\* an ordinary transaction: money that is a number, a date that is a day
Transaction(r) ==
    /\ IsMoney(r.amount) /\ IsMoney(r.balance)
    /\ IsDayMonthYear(r.date)
    /\ ~TypeArranged(r) /\ ~DateArranged(r)

Called == ret # None
Recs == upload.recs
LastRec == Recs[Len(Recs)]
\* a statement under the plain header, one record at least
Statement == Called /\ upload \in RowUploads /\ Len(Recs) > 0
\* a statement whose rows before the last are ordinary transactions
StatementBeforeLast == Statement /\ \A i \in 1..(Len(Recs) - 1) : Transaction(Recs[i])

\* the column of the returned table labelled c
Column(c) == ret.df.data[Positions(ret.df.columns, c, 1)[1]]

(***************************************************************************)
(* C1.  A header that holds the five required columns, whatever the case   *)
(* and whitespace of the names and whatever other columns stand beside     *)
(* them (columns whose names normalise to a required name too), is read:   *)
(* the table has the columns date, type, description, amount, balance,     *)
(* each once, in that order.                                               *)
(***************************************************************************)
C1_ExactlyFiveColumns ==
    (Called /\ upload \in HeaderUploads /\ HasAllRequired(upload))
        => (ret.exc = "none" /\ ret.df.columns = CanonicalColumns)

(***************************************************************************)
(* C2.  A header that lacks required columns fails with MidataCSVError, no *)
(* table comes back, and the message lists the missing names and no        *)
(* others, each quoted, joined by ", " but for the last, joined by " and". *)
(***************************************************************************)
C2_SchemaError ==
    (Called /\ upload \in ParseUploads /\ ~HasAllRequired(upload))
        => /\ ret.exc = "MidataCSVError"
           /\ ret.df = None
           /\ ret.msg = MsgPrefix \o ExpectedList(ExpectedMissing(upload, 1))

C2_Witness ==
    /\ Called /\ upload \in ParseUploads
    /\ ret.exc = "MidataCSVError"
    /\ ExpectedMissing(upload, 1) = <<DATE, TYPE, BALANCE>>
    /\ upload.cols[1] = NotesCol
    /\ upload.cols[2].text = ShoutNames[4]

(***************************************************************************)
(* C3.  When the type of the last row starts with "arranged", in any case, *)
(* the returned table has one row fewer than the file, the last row gone.  *)
(***************************************************************************)
C3_DropsLastRowByType ==
    (StatementBeforeLast /\ TypeArranged(LastRec) /\ ret.exc = "none")
        => /\ NRows(ret.df) = Len(Recs) - 1
           /\ \A i \in 1..(Len(Recs) - 1) : Column(TYPE)[i] = StrCell(Recs[i].type)

(***************************************************************************)
(* C4.  When the type of the last row does not start with "arranged", no   *)
(* row is dropped, whatever its other fields: the returned table has the   *)
(* rows of the file, in their order.                                       *)
(***************************************************************************)
C4_KeepsRowsByType ==
    (StatementBeforeLast /\ ~TypeArranged(LastRec) /\ ret.exc = "none")
        => /\ NRows(ret.df) = Len(Recs)
           /\ \A i \in 1..Len(Recs) : Column(TYPE)[i] = StrCell(Recs[i].type)

(***************************************************************************)
(* C5.  The pound sign is optional: a statement of dated transactions      *)
(* whose amounts and balances are decimal numbers, with the sign or        *)
(* without, on some values, all or none, is read, and each amount and      *)
(* balance is the number its text states.                                  *)
(***************************************************************************)
C5_CurrencySymbolOptional ==
    (Statement /\ \A i \in 1..Len(Recs) : Transaction(Recs[i]))
        => /\ ret.exc = "none"
           /\ \A i \in 1..Len(Recs) :
                /\ Column(AMOUNT)[i] = NumCell(MoneyOf(Recs[i].amount))
                /\ Column(BALANCE)[i] = NumCell(MoneyOf(Recs[i].balance))

(***************************************************************************)
(* C6.  The summary row goes before the coercions: a payment followed by   *)
(* a last row of type "Arranged Overdraft Limit", dated 02/01/2023, with   *)
(* no description and no amount, reads as the one payment, and no record   *)
(* lacks its amount.                                                       *)
(***************************************************************************)
C6_SummaryRowScenario ==
    (Called /\ upload = [cols |-> FullHeader, recs |-> <<RPay, RTypeOverdraft>>])
        => /\ ret.exc = "none"
           /\ ret.df.columns = CanonicalColumns
           /\ ret.df.data = << <<DateCell(2023, 1, 1)>>, <<StrCell(<<"P","a","y","m","e","n","t">>)>>,
                               <<StrCell(<<"S","h","o","p">>)>>, <<NumCell(-2000)>>,
                               <<NumCell(98000)>> >>

(***************************************************************************)
(* C7.  Dates are strict: of a statement whose rows all stay and whose     *)
(* money reads, every date written DD/MM/YYYY comes back as that day, and  *)
(* one date that is not so written fails the whole call with an error of   *)
(* its own class, neither that of a missing column nor that of a bad       *)
(* number, and no table.                                                   *)
(***************************************************************************)
\* the class of the error a bad number raises
NumericErrorClass ==
    read_midata(Csv([cols |-> FullHeader, recs |-> <<RBadAmount>>])).exc

Retained(r) ==
    /\ IsMoney(r.amount) /\ HasPound(r.amount)
    /\ IsMoney(r.balance) /\ HasPound(r.balance)
    /\ ~TypeArranged(r) /\ ~DateArranged(r)

C7_StrictDates ==
    (Statement /\ \A i \in 1..Len(Recs) : Retained(Recs[i]))
        => IF \A i \in 1..Len(Recs) : IsDayMonthYear(Recs[i].date)
           THEN /\ ret.exc = "none"
                /\ \A i \in 1..Len(Recs) : Column(DATE)[i] = DayMonthYearOf(Recs[i].date)
           ELSE /\ ret.exc \notin {"none", "MidataCSVError", NumericErrorClass}
                /\ ret.df = None

(***************************************************************************)
(* C8.  After an upload that read_midata accepted the dashboard is wholly  *)
(* of that upload: the bound table is its table, the x bounds the least    *)
(* and greatest of its dates, the y bounds 0 and the greatest balance or   *)
(* absolute amount rounded up to a multiple of 1000 (stated of the         *)
(* uploads whose table has a row).                                         *)
(***************************************************************************)
Abs(v) == IF v < 0 THEN 0 - v ELSE v
\* balances and absolute amounts of the returned table, in hundredths
Magnitudes ==
    {Column(BALANCE)[i].v : i \in {k \in 1..NRows(ret.df) : Column(BALANCE)[k].k = "num"}}
    \cup {Abs(Column(AMOUNT)[i].v) : i \in {k \in 1..NRows(ret.df) : Column(AMOUNT)[k].k = "num"}}

C8_FullyUpdated ==
    (Called /\ ret.exc = "none" /\ NRows(ret.df) > 0)
        => /\ source = ret.df
           /\ \A i \in 1..NRows(ret.df) :
                /\ ~DateLess(Column(DATE)[i], x_range.lo)
                /\ ~DateLess(x_range.hi, Column(DATE)[i])
           /\ \E i \in 1..NRows(ret.df) : x_range.lo = Column(DATE)[i]
           /\ \E i \in 1..NRows(ret.df) : x_range.hi = Column(DATE)[i]
           /\ y_range.lo = 0
           /\ y_range.hi % 1000 = 0
           /\ \A v \in Magnitudes : v <= 100 * y_range.hi
           /\ \E v \in Magnitudes : v > 100 * (y_range.hi - 1000)

(***************************************************************************)
(* C9.  All or nothing: an upload that read_midata rejects, at the column  *)
(* check, at a number or at a date, hands back no table, lets the error    *)
(* out of the callback, and leaves the bound table and both axis ranges    *)
(* as they were.                                                           *)
(***************************************************************************)
C9_AllOrNothing ==
    [][(ret' # None /\ ret'.exc # "none")
          => /\ ret'.df = None
             /\ raised' = ret'.exc
             /\ source' = source
             /\ x_range' = x_range
             /\ y_range' = y_range]_vars

C9_Witness ==
    /\ Called /\ ret.exc = "ValueError" /\ ret.line = 54
    /\ raised = "ValueError"
    /\ source # EMPTY_MIDATA /\ NRows(source) = 2
    /\ x_range.lo = DateCell(2023, 1, 1) /\ x_range.hi = DateCell(2023, 12, 31)

(***************************************************************************)
(* C10.  Leaving the Logger always completes: however the block ends,      *)
(* __exit__ logs one outcome message, shuts logging down, returns a falsy  *)
(* value and raises nothing of its own.                                    *)
(***************************************************************************)
C10_ExitCompletes ==
    phase = "exited"
        => /\ exited.exit.exc = "none"
           /\ Len(exited.exit.logged) = 1
           /\ exited.exit.shutdown
           /\ exited.exit.returned = None
====
